---- MODULE Spec2Model ----
(***************************************************************************)
(* Copy Refinery: the Transform Client (src/api.js, its max_tokens variant *)
(* src/unnamed/part_001, the browser variant src/api-browser.js), the      *)
(* Relay Server (src/server.js) and the Frontend Client Stub               *)
(* (src/unnamed/part_000), as a state machine.                             *)
(*                                                                         *)
(* JavaScript values are tagged records: Undefined, Null, Str(s) with s a  *)
(* sequence of characters ("w" a whitespace character, "a" any other),     *)
(* Name(n) for the strings the code compares against literals (actions,    *)
(* model identifiers, systemPrompt tags) and Obj records for options.      *)
(* A message built by a template literal is the sequence of its pieces.    *)
(***************************************************************************)
EXTENDS Integers, Sequences, FiniteSets, TLC

VARIABLES model, inflight, last, apiInstance, apiClient, browserInstance,
          imodel, wpending, wlast, response, guide, request, prompt

vars == <<model, inflight, last, apiInstance, apiClient, browserInstance,
          imodel, wpending, wlast, response, guide, request, prompt>>

serverVars == <<model, inflight, last>>
wrapperVars == <<apiInstance, apiClient, browserInstance, imodel, wpending, wlast>>
guideVars == <<response, guide, request, prompt>>

\* ---------------------------------------------------------------- bounds

\* Requests (or wrapper promises) that may await the provider at once.
MaxInFlight == 2

\* Longest provider response, in tokens, the style-guide parser is run on.
MaxRespLen == 6

\* ---------------------------------------------------------------- values

Undefined == [t |-> "undefined"]

Null == [t |-> "null"]

Str(s) == [t |-> "string", v |-> s]

Name(n) == [t |-> "name", n |-> n]

\* A number a JSON body may carry.  Temperatures are counted in tenths
\* (0.3 is Num(3)), token limits in tokens.
Num(v) == [t |-> "number", v |-> v]

\* A number other than 0 and NaN, as a JSON body may carry one.
Number == Num(1)

\* JavaScript truthiness (the operand of ! and of ||, ? : and if).
Truthy(x) ==
    CASE x.t = "undefined" -> FALSE
      [] x.t = "null" -> FALSE
      [] x.t = "string" -> x.v # <<>>
      [] x.t = "name" -> x.n # ""
      [] x.t = "number" -> x.v # 0
      [] OTHER -> TRUE

RECURSIVE TrimStart(_)
\* String.prototype.trimStart on a character sequence.
TrimStart(s) ==
    IF s # <<>> /\ Head(s) = "w" THEN TrimStart(Tail(s)) ELSE s

RECURSIVE TrimEnd(_)
\* String.prototype.trimEnd on a character sequence.
TrimEnd(s) ==
    IF s # <<>> /\ s[Len(s)] = "w" THEN TrimEnd(SubSeq(s, 1, Len(s) - 1)) ELSE s

\* String.prototype.trim.
Trim(s) == TrimEnd(TrimStart(s))

\* A message is non-empty when one of its pieces is.
NonEmptyMessage(m) == \E i \in 1..Len(m) : m[i] # ""

\* An options object as the handlers read it: the fields a request may carry.
Obj(instruction, systemPrompt) ==
    [t |-> "object", instruction |-> instruction, systemPrompt |-> systemPrompt,
     styleGuide |-> Undefined, max_tokens |-> Undefined, temperature |-> Undefined]

\* options carrying max_tokens and temperature.
WithParams(options, max_tokens, temperature) ==
    [options EXCEPT !.max_tokens = max_tokens, !.temperature = temperature]

\* options carrying a styleGuide.
WithStyleGuide(options, styleGuide) == [options EXCEPT !.styleGuide = styleGuide]

\* A style guide object: the fields transform reads of it.
GuideObject(comprehensiveGuide, conciseGuide, styleGuide) ==
    [t |-> "object", comprehensiveGuide |-> comprehensiveGuide,
     conciseGuide |-> conciseGuide, styleGuide |-> styleGuide]

\* {} : every field undefined.
EmptyObj == Obj(Undefined, Undefined)

\* {...x}: spreading undefined or null contributes no field.
Spread(x) == IF x.t = "object" THEN x ELSE EmptyObj

\* ------------------------------------------- Transform Client (src/api.js)

DefaultModel == "claude-sonnet-4-5-20250929"

\* The keys of this.availableModels.
RegistryIds ==
    { "claude-sonnet-4-5-20250929", "claude-opus-4-1-20250805",
      "claude-sonnet-4-20250514", "claude-3-5-haiku-20241022" }

\* Display names of the registry entries.
ModelName(id) ==
    CASE id = "claude-sonnet-4-5-20250929" -> "Claude Sonnet 4.5"
      [] id = "claude-opus-4-1-20250805" -> "Claude Opus 4.1"
      [] id = "claude-sonnet-4-20250514" -> "Claude Sonnet 4"
      [] id = "claude-3-5-haiku-20241022" -> "Claude Haiku 3.5"
      [] OTHER -> "undefined"

\* Property names every object literal inherits from Object.prototype.
InheritedProps ==
    { "constructor", "toString", "valueOf", "hasOwnProperty", "__proto__" }

\* this.availableModels[modelId]: an own entry, an inherited member, or undefined.
AvailableModelsLookup(modelId) ==
    IF modelId.t # "name" THEN Undefined
    ELSE IF modelId.n \in RegistryIds THEN [t |-> "object", name |-> ModelName(modelId.n)]
    ELSE IF modelId.n \in InheritedProps THEN [t |-> "function"]
    ELSE Undefined

\* setModel assigning this.model before it looks the identifier up.
SetModelAssignsFirst(m, modelId) ==
    [ret |-> Truthy(AvailableModelsLookup(modelId)),
     model |-> IF modelId.t = "name" THEN modelId.n ELSE m]

\* setModel(modelId) on an instance whose this.model is m: the value returned
\* and this.model afterwards.
SetModel(m, modelId) ==
    IF Truthy(AvailableModelsLookup(modelId))
    THEN [ret |-> TRUE, model |-> modelId.n]
    ELSE [ret |-> FALSE, model |-> m]

\* getCurrentModel(): { id: this.model, ...this.availableModels[this.model] }.
GetCurrentModel(m) ==
    [id |-> m,
     name |-> IF AvailableModelsLookup(Name(m)).t = "object"
              THEN AvailableModelsLookup(Name(m)).name ELSE "undefined"]

\* this.defaultParams.max_tokens.
DefaultMaxTokens == 1000

\* this.defaultParams.temperature: 0.3, in tenths.
DefaultTemperature == 3

\* additionalParams.temperature || this.defaultParams.temperature.
Temperature(additionalParams) ==
    IF Truthy(additionalParams.temperature)
    THEN additionalParams.temperature
    ELSE Num(DefaultTemperature)

\* The branch of the systemPrompt if/else chain transform takes.
TemplateOf(additionalParams) ==
    CASE additionalParams.systemPrompt = Name("articulate") -> "articulate"
      [] additionalParams.systemPrompt = Name("refine") -> "refine"
      [] additionalParams.systemPrompt = Name("edit") -> "edit"
      [] OTHER -> "generic"

\* selectedStyleGuide always taking the comprehensive guide of a guide object.
SelectedStyleGuideComprehensive(additionalParams) ==
    LET styleGuide == additionalParams.styleGuide
    IN  IF ~Truthy(styleGuide) THEN Null
        ELSE IF styleGuide.t = "object" /\ Truthy(styleGuide.comprehensiveGuide)
        THEN styleGuide.comprehensiveGuide
        ELSE IF styleGuide.t \in {"string", "name"} THEN styleGuide
        ELSE IF styleGuide.t = "object" THEN styleGuide.styleGuide
        ELSE Undefined

\* selectedStyleGuide as transform computes it: null when no style guide is
\* given; of a guide object with a comprehensiveGuide, that guide for the
\* articulate template and conciseGuide || comprehensiveGuide for the others;
\* a string as it is; of anything else its styleGuide property.
SelectedStyleGuide(additionalParams) ==
    LET styleGuide == additionalParams.styleGuide
    IN  IF ~Truthy(styleGuide) THEN Null
        ELSE IF styleGuide.t = "object" /\ Truthy(styleGuide.comprehensiveGuide)
        THEN IF additionalParams.systemPrompt = Name("articulate")
             THEN styleGuide.comprehensiveGuide
             ELSE IF Truthy(styleGuide.conciseGuide)
                  THEN styleGuide.conciseGuide
                  ELSE styleGuide.comprehensiveGuide
        ELSE IF styleGuide.t \in {"string", "name"} THEN styleGuide
        ELSE IF styleGuide.t = "object" THEN styleGuide.styleGuide
        ELSE Undefined

\* ${selectedStyleGuide ? `STIL-VORGABEN: ... ${selectedStyleGuide} ...` : ''} in
\* the system prompt: the guide the block holds, Undefined when the prompt has
\* no block.  The generic template has no such block.
StyleGuideBlock(additionalParams) ==
    IF /\ TemplateOf(additionalParams) \in {"articulate", "refine", "edit"}
       /\ Truthy(SelectedStyleGuide(additionalParams))
    THEN SelectedStyleGuide(additionalParams)
    ELSE Undefined

\* transform sending the constructor's default model, not this.model.
TransformCallDefaultModel(m, additionalParams) ==
    [kind |-> "transform", model |-> DefaultModel, max_tokens |-> DefaultMaxTokens,
     system |-> TemplateOf(additionalParams),
     styleGuide |-> StyleGuideBlock(additionalParams),
     temperature |-> Temperature(additionalParams)]

\* The argument of this.client.messages.create in transform.
TransformCall(m, additionalParams) ==
    [kind |-> "transform", model |-> m, max_tokens |-> DefaultMaxTokens,
     system |-> TemplateOf(additionalParams),
     styleGuide |-> StyleGuideBlock(additionalParams),
     temperature |-> Temperature(additionalParams)]

\* A catch block that hands the input back as the transformed text.
TransformFailureEchoesText(text, instruction, message) ==
    [success |-> FALSE, error |-> message, originalText |-> text,
     transformedText |-> text, instruction |-> instruction,
     timestamp |-> "iso8601"]

\* The object transform returns from its catch block.
TransformFailure(text, instruction, message) ==
    [success |-> FALSE, error |-> message, originalText |-> text,
     instruction |-> instruction, timestamp |-> "iso8601"]

\* The TypeError of message.content[0].text on a 2xx reply whose content is
\* missing ("nocontent") or an empty array ("malformed").
ContentError(outcome) ==
    IF outcome.kind = "nocontent"
    THEN <<"Cannot read properties of undefined (reading '0')">>
    ELSE <<"Cannot read properties of undefined (reading 'text')">>

\* What the provider call settles with: a reply (its content[0].text), a
\* non-2xx status, a network failure, or a 2xx reply whose content is an
\* empty array or missing.
ProviderOutcomes ==
    { [kind |-> "ok", text |-> <<"a">>, message |-> <<>>],
      [kind |-> "ok", text |-> <<"w", "a", "w">>, message |-> <<>>],
      [kind |-> "ok", text |-> <<"HU", "E", "a", "HP", "E", "a">>, message |-> <<>>],
      [kind |-> "http", text |-> <<>>, message |-> <<"401 ", "invalid x-api-key">>],
      [kind |-> "network", text |-> <<>>, message |-> <<"Connection error.">>],
      [kind |-> "malformed", text |-> <<>>, message |-> <<>>],
      [kind |-> "nocontent", text |-> <<>>, message |-> <<>>] }

\* transform whose catch block reports the failed call as a success.
TransformSettleCatchSucceeds(m, text, instruction, outcome) ==
    [success |-> TRUE, originalText |-> text,
     transformedText |-> Str(Trim(outcome.text)),
     instruction |-> instruction, model |-> m, timestamp |-> "iso8601"]

\* transform reporting the constructor's default model, not this.model.
TransformSettleDefaultModel(m, text, instruction, outcome) ==
    CASE outcome.kind = "ok" ->
           [success |-> TRUE, originalText |-> text,
            transformedText |-> Str(Trim(outcome.text)),
            instruction |-> instruction, model |-> DefaultModel,
            timestamp |-> "iso8601"]
      [] outcome.kind \in {"malformed", "nocontent"} ->
           TransformFailure(text, instruction, ContentError(outcome))
      [] OTHER -> TransformFailure(text, instruction, outcome.message)

\* transform after its await: m is this.model when the provider call settles.
TransformSettle(m, text, instruction, outcome) ==
    CASE outcome.kind = "ok" ->
           [success |-> TRUE, originalText |-> text,
            transformedText |-> Str(Trim(outcome.text)),
            instruction |-> instruction, model |-> m, timestamp |-> "iso8601"]
      [] outcome.kind \in {"malformed", "nocontent"} ->
           TransformFailure(text, instruction, ContentError(outcome))
      [] OTHER -> TransformFailure(text, instruction, outcome.message)

\* transform up to its await: a null additionalParams makes the first property
\* read throw inside the try, so the catch answers without a provider call.
TransformStart(m, text, instruction, additionalParams) ==
    IF additionalParams.t = "null"
    THEN [call |-> FALSE,
          result |-> TransformFailure(text, instruction,
              <<"Cannot read properties of null (reading 'styleGuide')">>)]
    ELSE [call |-> TRUE, request |-> TransformCall(m, Spread(additionalParams))]

\* The fixed instruction articulate passes to transform.
ArticulateInstruction == Name("Entwickle aus der gegebenen Gedankenstruktur ...")

\* The fixed instruction refine passes to transform.
RefineInstruction == Name("Verfeinere diesen Text ...")

\* articulate spreading the caller's options after its own systemPrompt.
ArticulateOptionsLast(text, additionalParams) ==
    [text |-> text, instruction |-> ArticulateInstruction,
     params |-> IF Truthy(Spread(additionalParams).systemPrompt)
                THEN Spread(additionalParams)
                ELSE [Spread(additionalParams) EXCEPT !.systemPrompt = Name("articulate")]]

\* articulate(text, additionalParams): the arguments it hands to transform.
Articulate(text, additionalParams) ==
    [text |-> text, instruction |-> ArticulateInstruction,
     params |-> [Spread(additionalParams) EXCEPT !.systemPrompt = Name("articulate")]]

\* refine(text, additionalParams): the arguments it hands to transform.
Refine(text, additionalParams) ==
    [text |-> text, instruction |-> RefineInstruction,
     params |-> [Spread(additionalParams) EXCEPT !.systemPrompt = Name("refine")]]

\* edit's guard: !instruction || !instruction.trim().
EditRejects(instruction) ==
    \/ ~Truthy(instruction)
    \/ instruction.t = "string" /\ Trim(instruction.v) = <<>>

\* edit(text, instruction, additionalParams) past its guard: the arguments it
\* hands to transform.
Edit(text, instruction, additionalParams) ==
    [text |-> text, instruction |-> Str(Trim(instruction.v)),
     params |-> [Spread(additionalParams) EXCEPT !.systemPrompt = Name("edit")]]

EditError == <<"EDIT function requires a specific instruction">>

\* ------------------------- the client with per-action token limits
\* src/unnamed/part_001 is the client class with a larger default token
\* limit, a max_tokens option read by transform, and articulate, refine and
\* edit setting max_tokens next to systemPrompt.

\* this.defaultParams.max_tokens of that class.
VariantMaxTokens == 8000

\* additionalParams.max_tokens || this.defaultParams.max_tokens.
VariantMaxTokensOf(additionalParams) ==
    IF Truthy(additionalParams.max_tokens)
    THEN additionalParams.max_tokens.v
    ELSE VariantMaxTokens

\* The argument of this.client.messages.create in that class's transform.
VariantTransformCall(m, additionalParams) ==
    [kind |-> "transform", model |-> m,
     max_tokens |-> VariantMaxTokensOf(additionalParams),
     system |-> TemplateOf(additionalParams),
     styleGuide |-> StyleGuideBlock(additionalParams),
     temperature |-> Temperature(additionalParams)]

\* articulate of that class: the arguments it hands to transform.
VariantArticulate(text, additionalParams) ==
    [text |-> text, instruction |-> ArticulateInstruction,
     params |-> [Spread(additionalParams) EXCEPT !.systemPrompt = Name("articulate"),
                                                 !.max_tokens = Num(8000)]]

\* refine setting systemPrompt and leaving the caller's max_tokens in place.
VariantRefineKeepsMaxTokens(text, additionalParams) ==
    [text |-> text, instruction |-> RefineInstruction,
     params |-> [Spread(additionalParams) EXCEPT !.systemPrompt = Name("refine")]]

\* refine of that class: the arguments it hands to transform.
VariantRefine(text, additionalParams) ==
    [text |-> text, instruction |-> RefineInstruction,
     params |-> [Spread(additionalParams) EXCEPT !.systemPrompt = Name("refine"),
                                                 !.max_tokens = Num(8000)]]

\* edit of that class past its guard: the arguments it hands to transform.
VariantEdit(text, instruction, additionalParams) ==
    [text |-> text, instruction |-> Str(Trim(instruction.v)),
     params |-> [Spread(additionalParams) EXCEPT !.systemPrompt = Name("edit"),
                                                 !.max_tokens = Num(8000)]]

\* ----------------------------------------------------- generateStyleGuide
\* A provider response is a sequence of tokens: "HU" the text
\* "=== UMFASSENDER STYLE GUIDE", "HP" the text "=== PRÄZISER STYLE GUIDE",
\* "E" a bare "===", "w" a whitespace character, "a" any other character.
\* "U" and "P" are what is left of "HU" and "HP" behind their leading "===".

ResponseTokens == { "HU", "HP", "E", "w", "a" }

\* Tokens that begin with "===".
OpensWithEquals == { "E", "HU", "HP" }

\* What follows the leading "===" of a token.
AfterEquals(tok) ==
    CASE tok = "HU" -> <<"U">>
      [] tok = "HP" -> <<"P">>
      [] OTHER -> <<>>

\* Index of the first token of s at or after from that is in S; 0 when none.
FirstIndex(s, S, from) ==
    IF \E i \in from..Len(s) : s[i] \in S
    THEN CHOOSE i \in from..Len(s) :
             /\ s[i] \in S
             /\ \A k \in from..(i - 1) : s[k] \notin S
    ELSE 0

\* The first pattern without its lookahead: group 1 runs to the end.
ComprehensiveMatchToEnd(full) ==
    LET i == FirstIndex(full, {"HU"}, 1)
        j == IF i = 0 THEN 0 ELSE FirstIndex(full, OpensWithEquals, i + 1)
    IN  IF j = 0 THEN [matched |-> FALSE, group |-> <<>>]
        ELSE [matched |-> TRUE,
              group |-> AfterEquals(full[j]) \o SubSeq(full, j + 1, Len(full))]

\* fullResponse.match(/=== UMFASSENDER STYLE GUIDE.*?===(.*?)(?==== PRÄZISER STYLE GUIDE|$)/s):
\* whether it matched, and its group 1.
ComprehensiveMatch(full) ==
    LET i == FirstIndex(full, {"HU"}, 1)
        j == IF i = 0 THEN 0 ELSE FirstIndex(full, OpensWithEquals, i + 1)
        k == IF j = 0 THEN 0 ELSE FirstIndex(full, {"HP"}, j + 1)
    IN  IF j = 0 THEN [matched |-> FALSE, group |-> <<>>]
        ELSE [matched |-> TRUE,
              group |-> AfterEquals(full[j]) \o
                        SubSeq(full, j + 1, IF k = 0 THEN Len(full) ELSE k - 1)]

\* fullResponse.match(/=== PRÄZISER STYLE GUIDE.*?===(.*?)$/s): whether it
\* matched, and its group 1.
ConciseMatch(full) ==
    LET i == FirstIndex(full, {"HP"}, 1)
        j == IF i = 0 THEN 0 ELSE FirstIndex(full, OpensWithEquals, i + 1)
    IN  IF j = 0 THEN [matched |-> FALSE, group |-> <<>>]
        ELSE [matched |-> TRUE,
              group |-> AfterEquals(full[j]) \o SubSeq(full, j + 1, Len(full))]

\* comprehensiveMatch ? comprehensiveMatch[1].trim() : fullResponse
ComprehensiveGuide(full) ==
    IF ComprehensiveMatch(full).matched
    THEN Trim(ComprehensiveMatch(full).group) ELSE full

\* The concise guide falling back to the full response, as the other does.
ConciseGuideFallsBack(full) ==
    IF ConciseMatch(full).matched THEN Trim(ConciseMatch(full).group) ELSE full

\* conciseMatch ? conciseMatch[1].trim() : ''
ConciseGuide(full) ==
    IF ConciseMatch(full).matched THEN Trim(ConciseMatch(full).group) ELSE <<>>

\* The object generateStyleGuide returns from its catch block.
StyleGuideFailure(exampleText, message) ==
    [success |-> FALSE, error |-> message, exampleText |-> exampleText,
     timestamp |-> "iso8601"]

\* The argument of this.client.messages.create in generateStyleGuide.
StyleGuideCall(m) ==
    [kind |-> "styleGuide", model |-> m, max_tokens |-> 6000, system |-> "styleGuide",
     styleGuide |-> Undefined, temperature |-> Num(3)]

\* generateStyleGuide reading the reply as message.content?.[0]?.text ?? ''.
GenerateStyleGuideSettleOptional(m, exampleText, additionalInstructions, outcome) ==
    IF outcome.kind \in {"ok", "malformed", "nocontent"}
    THEN LET fullResponse == Trim(outcome.text)
         IN  [success |-> TRUE,
              styleGuide |-> ComprehensiveGuide(fullResponse),
              comprehensiveGuide |-> ComprehensiveGuide(fullResponse),
              conciseGuide |-> ConciseGuide(fullResponse),
              fullResponse |-> fullResponse,
              exampleText |-> exampleText,
              additionalInstructions |-> additionalInstructions,
              model |-> m, timestamp |-> "iso8601"]
    ELSE StyleGuideFailure(exampleText, outcome.message)

\* generateStyleGuide after its await: m is this.model when the call settles.
GenerateStyleGuideSettle(m, exampleText, additionalInstructions, outcome) ==
    CASE outcome.kind = "ok" ->
           LET fullResponse == Trim(outcome.text)
           IN  [success |-> TRUE,
                styleGuide |-> ComprehensiveGuide(fullResponse),
                comprehensiveGuide |-> ComprehensiveGuide(fullResponse),
                conciseGuide |-> ConciseGuide(fullResponse),
                fullResponse |-> fullResponse,
                exampleText |-> exampleText,
                additionalInstructions |-> additionalInstructions,
                model |-> m, timestamp |-> "iso8601"]
      [] outcome.kind \in {"malformed", "nocontent"} ->
           StyleGuideFailure(exampleText, ContentError(outcome))
      [] OTHER -> StyleGuideFailure(exampleText, outcome.message)

\* The argument of this.client.messages.create in validateConnection.
ValidateCall(m) ==
    [kind |-> "validate", model |-> m, max_tokens |-> 10, system |-> "none",
     styleGuide |-> Undefined, temperature |-> Undefined]

\* validateConnection reading the text of the probe's reply.
ValidateConnectionReadsReply(m, outcome) ==
    IF outcome.kind = "ok"
    THEN [success |-> TRUE, message |-> "API connection successful", model |-> m]
    ELSE IF outcome.kind \in {"http", "network"}
    THEN [success |-> FALSE, error |-> outcome.message]
    ELSE [success |-> FALSE,
          error |-> <<"Cannot read properties of undefined (reading 'text')">>]

\* validateConnection after its await: the probe's reply is never read.
ValidateConnectionSettle(m, outcome) ==
    IF outcome.kind \in {"ok", "malformed", "nocontent"}
    THEN [success |-> TRUE, message |-> "API connection successful", model |-> m]
    ELSE [success |-> FALSE, error |-> outcome.message]

\* ------------------------------------------- Relay Server (src/server.js)

\* A parsed request body: the fields the routes destructure.
Body(text, action, options, exampleText, additionalInstructions, modelId) ==
    [text |-> text, action |-> action, options |-> options,
     exampleText |-> exampleText,
     additionalInstructions |-> additionalInstructions, modelId |-> modelId]

NoBody == Body(Undefined, Undefined, Undefined, Undefined, Undefined, Undefined)

\* res.status(status).json(body) before any provider call.
Answer(status, body) ==
    [answered |-> TRUE, threw |-> FALSE, status |-> status, body |-> body,
     sent |-> 1]

\* An exception thrown inside a handler's try block (by the handler itself, or
\* by awaiting a promise that rejected).
Throw(message) == [answered |-> FALSE, threw |-> TRUE, message |-> message]

\* A handler whose awaited method issues its provider call a second time.
AwaitCallsAgain(method, action, text, instruction, call) ==
    [answered |-> FALSE, threw |-> FALSE,
     pending |-> [method |-> method, action |-> action, text |-> text,
                  instruction |-> instruction, call |-> call],
     calls |-> <<call, call>>]

\* The handler reached its await: the provider call it issued and the
\* arguments the client method keeps for its return value.
Await(method, action, text, instruction, call) ==
    [answered |-> FALSE, threw |-> FALSE,
     pending |-> [method |-> method, action |-> action, text |-> text,
                  instruction |-> instruction, call |-> call],
     calls |-> <<call>>]

\* { success: false, error } as the routes build it.
ErrorBody(message) == [success |-> FALSE, error |-> message]

\* A catch block that answers without setting the status.
CaughtKeepsStatus(r) ==
    IF r.threw
    THEN [answered |-> TRUE, threw |-> TRUE, status |-> 200,
          body |-> ErrorBody(r.message), sent |-> 1]
    ELSE r

\* A catch block that logs the error and sends nothing.
CaughtSwallows(r) ==
    IF r.threw
    THEN [answered |-> TRUE, threw |-> TRUE, status |-> 0,
          body |-> ErrorBody(r.message), sent |-> 0]
    ELSE r

\* catch (error) { res.status(500).json({ success: false, error: error.message }) }
\* around what a handler's try block came to.
Caught(r) ==
    IF r.threw
    THEN [answered |-> TRUE, threw |-> TRUE, status |-> 500,
          body |-> ErrorBody(r.message), sent |-> 1]
    ELSE r

\* The client method called by a route, up to the await inside transform.
CallTransform(m, method, action, args) ==
    LET started == TransformStart(m, args.text, args.instruction, args.params)
    IN  IF started.call
        THEN Await(method, action, args.text, args.instruction, started.request)
        ELSE Answer(200, started.result)

\* `${action}` in a template literal.
ActionText(action) == IF action.t = "name" THEN action.n ELSE "undefined"

\* The transform route's field check with the text test left out.
MissingTransformFieldsActionOnly(text, action) == ~Truthy(action)

\* !text || !action
MissingTransformFields(text, action) == ~Truthy(text) \/ ~Truthy(action)

\* !exampleText || !exampleText.trim()
MissingExampleText(exampleText) ==
    ~Truthy(exampleText) \/ (exampleText.t = "string" /\ Trim(exampleText.v) = <<>>)

\* !modelId
MissingModelId(modelId) == ~Truthy(modelId)

\* The try block of app.post('/api/transform'), up to its first await, its
\* response or the exception it throws.
TransformTry(m, body) ==
    LET text == body.text
        action == body.action
        options == IF body.options.t = "undefined" THEN EmptyObj ELSE body.options
    IN  IF MissingTransformFields(text, action)
        THEN Answer(400, ErrorBody(<<"Missing required fields: text and action">>))
        ELSE CASE action = Name("ARTICULATE") ->
                    CallTransform(m, "articulate", action, Articulate(text, options))
               [] action = Name("REFINE") ->
                    CallTransform(m, "refine", action, Refine(text, options))
               [] action = Name("EDIT") ->
                    IF options.t = "null"
                    THEN Throw(<<"Cannot read properties of null (reading 'instruction')">>)
                    ELSE IF ~Truthy(options.instruction)
                    THEN Answer(400, ErrorBody(
                             <<"EDIT action requires instruction in options">>))
                    ELSE IF EditRejects(options.instruction)
                    THEN Throw(EditError)
                    ELSE CallTransform(m, "edit", action,
                                       Edit(text, options.instruction, options))
               [] OTHER ->
                    Answer(400, ErrorBody(
                        <<"Unknown action: ", ActionText(action),
                          ". Supported actions: ARTICULATE, REFINE, EDIT.">>))

\* app.post('/api/transform'), up to its first await or its response.
TransformRoute(m, body) == Caught(TransformTry(m, body))

\* The same route with claudeAPI an instance of the class with per-action
\* token limits: its checks and its dispatch are the route's, the provider
\* call is the one that class's method issues.
VariantTransformRoute(m, body) ==
    LET r == TransformRoute(m, body)
        options == IF body.options.t = "undefined" THEN EmptyObj ELSE body.options
    IN  IF r.answered
        THEN r
        ELSE LET args ==
                     CASE r.pending.method = "articulate" ->
                            VariantArticulate(body.text, options)
                       [] r.pending.method = "refine" ->
                            VariantRefine(body.text, options)
                       [] OTHER ->
                            VariantEdit(body.text, options.instruction, options)
             IN  Await(r.pending.method, body.action, args.text, args.instruction,
                       VariantTransformCall(m, args.params))

\* The try block of app.post('/api/generate-style-guide'), up to its await,
\* its response or the exception it throws.
StyleGuideTry(m, body) ==
    LET exampleText == body.exampleText
        additionalInstructions ==
            IF body.additionalInstructions.t = "undefined"
            THEN Str(<<>>) ELSE body.additionalInstructions
    IN  IF MissingExampleText(exampleText)
        THEN Answer(400, ErrorBody(<<"Missing required field: exampleText">>))
        ELSE IF exampleText.t # "string"
        THEN Throw(<<"exampleText.trim is not a function">>)
        ELSE Await("generateStyleGuide", Undefined, Str(Trim(exampleText.v)),
                   additionalInstructions, StyleGuideCall(m))

\* app.post('/api/generate-style-guide'), up to its await or its response.
StyleGuideRoute(m, body) == Caught(StyleGuideTry(m, body))

\* The route reading the current model before it sets the new one.
ModelsSetRouteReadsFirst(m, body) ==
    IF MissingModelId(body.modelId)
    THEN [status |-> 400, model |-> m,
          body |-> ErrorBody(<<"Missing required field: modelId">>)]
    ELSE LET set == SetModel(m, body.modelId)
         IN  IF set.ret
             THEN [status |-> 200, model |-> set.model,
                   body |-> [success |-> TRUE, currentModel |-> GetCurrentModel(m)]]
             ELSE [status |-> 400, model |-> set.model,
                   body |-> ErrorBody(<<"Invalid model ID: ", body.modelId.n>>)]

\* app.post('/api/models/set'): its response and this.model afterwards.
ModelsSetRoute(m, body) ==
    IF MissingModelId(body.modelId)
    THEN [status |-> 400, model |-> m,
          body |-> ErrorBody(<<"Missing required field: modelId">>)]
    ELSE LET set == SetModel(m, body.modelId)
         IN  IF set.ret
             THEN [status |-> 200, model |-> set.model,
                   body |-> [success |-> TRUE,
                             currentModel |-> GetCurrentModel(set.model)]]
             ELSE [status |-> 400, model |-> set.model,
                   body |-> ErrorBody(<<"Invalid model ID: ", body.modelId.n>>)]

\* app.get('/api/models'): its response body.
ModelsRoute(m) ==
    Answer(200, [success |-> TRUE, models |-> RegistryIds,
                 currentModel |-> GetCurrentModel(m)])

\* The value a pending client method resolves with once its call settles.
MethodSettle(m, p, outcome) ==
    CASE p.method = "generateStyleGuide" ->
           GenerateStyleGuideSettle(m, p.text, p.instruction, outcome)
      [] p.method = "validateConnection" -> ValidateConnectionSettle(m, outcome)
      [] OTHER -> TransformSettle(m, p.text, p.instruction, outcome)

\* A route that answers 500 when the result it relays reports a failure.
RouteSettleStatusBySuccess(m, route, p, outcome) ==
    Answer(IF route # "health" /\ ~MethodSettle(m, p, outcome).success
           THEN 500 ELSE 200,
           IF route = "health"
           THEN [status |-> "ok", timestamp |-> "iso8601",
                 claude |-> MethodSettle(m, p, outcome)]
           ELSE MethodSettle(m, p, outcome))

\* The response a route sends once the client method it awaits has resolved:
\* res.json(result), which leaves the status at 200.
RouteSettle(m, route, p, outcome) ==
    Answer(200, IF route = "health"
                THEN [status |-> "ok", timestamp |-> "iso8601",
                      claude |-> MethodSettle(m, p, outcome)]
                ELSE MethodSettle(m, p, outcome))

\* ------------------------------- Browser variant (src/api-browser.js)

BrowserModel == "claude-3-5-sonnet-20241022"

\* What fetch and the reply's body give the browser variant: a 2xx reply with
\* content, a non-2xx reply (status, the error message of its JSON body or ""
\* when it has none, the status text, which HTTP/2 leaves empty), a rejected
\* fetch, or a 2xx reply with no content.
FetchOutcomes ==
    { [kind |-> "ok", text |-> <<"w", "a">>, status |-> "200", apiMessage |-> "",
       statusText |-> "OK", message |-> <<>>],
      [kind |-> "http", text |-> <<>>, status |-> "401",
       apiMessage |-> "invalid x-api-key", statusText |-> "Unauthorized",
       message |-> <<>>],
      [kind |-> "http", text |-> <<>>, status |-> "529", apiMessage |-> "",
       statusText |-> "", message |-> <<>>],
      [kind |-> "network", text |-> <<>>, status |-> "", apiMessage |-> "",
       statusText |-> "", message |-> <<"Failed to fetch">>],
      [kind |-> "malformed", text |-> <<>>, status |-> "200", apiMessage |-> "",
       statusText |-> "OK", message |-> <<>>],
      [kind |-> "nocontent", text |-> <<>>, status |-> "200", apiMessage |-> "",
       statusText |-> "OK", message |-> <<>>] }

\* `API Error ${response.status}: ${errorData.error?.message || response.statusText}`
BrowserApiError(outcome) ==
    <<"API Error ", outcome.status, ": ",
      IF outcome.apiMessage # "" THEN outcome.apiMessage ELSE outcome.statusText>>

\* The body of the fetch in the browser variant's transform.
BrowserTransformCall(m) ==
    [kind |-> "transform", model |-> m, max_tokens |-> DefaultMaxTokens,
     system |-> "generic", styleGuide |-> Undefined,
     temperature |-> Num(DefaultTemperature)]

\* The browser variant's transform after its fetch settles.
BrowserTransformSettle(m, text, instruction, outcome) ==
    CASE outcome.kind = "ok" ->
           [success |-> TRUE, originalText |-> text,
            transformedText |-> Str(Trim(outcome.text)),
            instruction |-> instruction, model |-> m, timestamp |-> "iso8601"]
      [] outcome.kind = "http" ->
           TransformFailure(text, instruction, BrowserApiError(outcome))
      [] outcome.kind \in {"malformed", "nocontent"} ->
           TransformFailure(text, instruction, ContentError(outcome))
      [] OTHER -> TransformFailure(text, instruction, outcome.message)

\* The body of the fetch in the browser variant's validateConnection.
BrowserValidateCall(m) ==
    [kind |-> "validate", model |-> m, max_tokens |-> 10, system |-> "none",
     styleGuide |-> Undefined, temperature |-> Undefined]

\* The browser variant's validateConnection after its fetch settles: only
\* testResponse.ok is looked at, and of a non-2xx reply the error message.
BrowserValidateConnectionSettle(m, outcome) ==
    CASE outcome.kind \in {"ok", "malformed", "nocontent"} ->
           [success |-> TRUE, message |-> "API connection successful", model |-> m]
      [] outcome.kind = "http" ->
           [success |-> FALSE,
            error |-> <<outcome.status, ": ",
                        IF outcome.apiMessage # "" THEN outcome.apiMessage
                        ELSE outcome.statusText>>]
      [] OTHER -> [success |-> FALSE, error |-> outcome.message]

\* The browser variant's transform up to its fetch: a null additionalParams
\* makes the template's property read throw inside the try.
BrowserTransformStart(m, text, instruction, additionalParams) ==
    IF additionalParams.t = "null"
    THEN [call |-> FALSE,
          result |-> TransformFailure(text, instruction,
              <<"Cannot read properties of null (reading 'context')">>)]
    ELSE [call |-> TRUE, request |-> BrowserTransformCall(m)]

\* ------------- Module-level wrappers (src/api.js, src/api-browser.js,
\* ------------- src/unnamed/part_000)

NotInitialized == <<"API not initialized. Call initializeAPI() first.">>

\* The wrappers each module exports.
ApiWrappers ==
    { "articulateText", "refineText", "editText", "generateStyleGuide",
      "setModel", "getAvailableModels", "getCurrentModel" }

ClientWrappers ==
    { "articulateText", "refineText", "editText", "generateStyleGuide",
      "getModels", "setModel" }

BrowserWrappers == { "shortenText", "elongateText", "simplifyText", "customTransform" }

\* Whether module's wrapper fn is declared async.
IsAsync(module, fn) ==
    ~(module = "api" /\ fn \in {"setModel", "getAvailableModels", "getCurrentModel"})

\* How a call of a function that throws error ends for its caller: an async
\* function returns a rejected promise, any other function throws.
Raise(async, error) ==
    [done |-> TRUE, how |-> IF async THEN "reject" ELSE "throw",
     error |-> error, value |-> Undefined]

\* A call that returns value: an async function's promise resolves with it.
Return(async, value) ==
    [done |-> TRUE, how |-> IF async THEN "resolve" ELSE "return",
     error |-> <<>>, value |-> value]

\* An async call that reached an await on the provider (or the relay).
Suspend(method, text, instruction, call) ==
    [done |-> FALSE,
     pending |-> [method |-> method, action |-> Undefined, text |-> text,
                  instruction |-> instruction, call |-> call]]

\* A client method that ends in transform, as called by a wrapper.
WrapTransform(m, method, args) ==
    LET started == TransformStart(m, args.text, args.instruction, args.params)
    IN  IF started.call
        THEN Suspend(method, args.text, args.instruction, started.request)
        ELSE Return(TRUE, started.result)

\* A wrapper without its guard: the method call on null raises instead.
ApiUninitializedTypeError(fn) ==
    Raise(IsAsync("api", fn), <<"Cannot read properties of null">>)

\* if (!apiInstance) throw new Error('API not initialized. ...') in a wrapper
\* of src/api.js.
ApiUninitialized(fn) == Raise(IsAsync("api", fn), NotInitialized)

\* A wrapper of src/api.js: inst is whether apiInstance is set, m its this.model.
ApiWrapper(inst, m, fn, text, instruction, options, modelId) ==
    IF ~inst THEN ApiUninitialized(fn)
    ELSE CASE fn = "articulateText" ->
                WrapTransform(m, "articulate", Articulate(text, options))
           [] fn = "refineText" ->
                WrapTransform(m, "refine", Refine(text, options))
           [] fn = "editText" ->
                IF EditRejects(instruction) THEN Raise(TRUE, EditError)
                ELSE WrapTransform(m, "edit", Edit(text, instruction, options))
           [] fn = "generateStyleGuide" ->
                Suspend("generateStyleGuide", text,
                        IF instruction.t = "undefined" THEN Str(<<>>) ELSE instruction,
                        StyleGuideCall(m))
           [] fn = "setModel" -> Return(FALSE, SetModel(m, modelId).ret)
           [] fn = "getAvailableModels" -> Return(FALSE, RegistryIds)
           [] OTHER -> Return(FALSE, GetCurrentModel(m))

\* What the relay gives the frontend stub's fetch: a reply (its status and
\* its JSON body, with error "" when the body has no error), a rejected
\* fetch, or a reply whose body is not JSON (the 413 of the body parser).
RelayOutcomes ==
    { [kind |-> "reply", status |-> 200,
       body |-> [success |-> TRUE, error |-> ""], message |-> <<>>],
      [kind |-> "reply", status |-> 200,
       body |-> [success |-> FALSE, error |-> "401 invalid x-api-key"],
       message |-> <<>>],
      [kind |-> "reply", status |-> 400,
       body |-> [success |-> FALSE,
                 error |-> "Missing required fields: text and action"],
       message |-> <<>>],
      [kind |-> "reply", status |-> 500,
       body |-> [success |-> FALSE, error |-> ""], message |-> <<>>],
      [kind |-> "network", status |-> 0,
       body |-> [success |-> FALSE, error |-> ""],
       message |-> <<"Failed to fetch">>],
      [kind |-> "notjson", status |-> 413,
       body |-> [success |-> FALSE, error |-> ""],
       message |-> <<"Unexpected token < in JSON at position 0">>] }

\* The object the stub's methods return from their catch block: callAPI adds
\* originalText and a timestamp, generateStyleGuide a timestamp.
ClientFailure(fn, text, message) ==
    CASE fn \in {"articulateText", "refineText", "editText"} ->
           [success |-> FALSE, error |-> message, originalText |-> text,
            timestamp |-> "iso8601"]
      [] fn = "generateStyleGuide" ->
           [success |-> FALSE, error |-> message, timestamp |-> "iso8601"]
      [] OTHER -> [success |-> FALSE, error |-> message]

\* The stub's methods throwing a fixed message for every non-2xx reply.
ClientSettleGenericError(fn, text, outcome) ==
    IF outcome.kind = "reply"
    THEN IF outcome.status \in 200..299
         THEN outcome.body
         ELSE ClientFailure(fn, text,
                  <<"Server error: ", ToString(outcome.status)>>)
    ELSE ClientFailure(fn, text, outcome.message)

\* callAPI, generateStyleGuide, getModels and setModel of the frontend stub
\* after their fetch settles: the parsed body of a 2xx reply as it is;
\* result.error || `Server error: ${response.status}` of another reply, and
\* the message of any other error, in the object the catch returns.
ClientSettle(fn, text, outcome) ==
    IF outcome.kind = "reply"
    THEN IF outcome.status \in 200..299
         THEN outcome.body
         ELSE ClientFailure(fn, text,
                  IF outcome.body.error # "" THEN <<outcome.body.error>>
                  ELSE <<"Server error: ", ToString(outcome.status)>>)
    ELSE ClientFailure(fn, text, outcome.message)

\* A wrapper of src/unnamed/part_000: inst is whether apiClient is set.
ClientWrapper(inst, fn, text) ==
    IF ~inst THEN Raise(TRUE, NotInitialized)
    ELSE Suspend("fetch", text, Undefined,
                 [kind |-> "relay", model |-> "", max_tokens |-> 0, system |-> fn,
                  styleGuide |-> Undefined, temperature |-> Undefined])

\* A wrapper of src/api-browser.js: inst is whether its apiInstance is set.
\* shorten, elongate and simplify read additionalParams while they build
\* their instruction, before transform's try; custom passes its own.
BrowserWrapper(inst, fn, text, instruction, options) ==
    IF ~inst THEN Raise(TRUE, NotInitialized)
    ELSE IF fn # "customTransform" /\ options.t = "null"
    THEN Raise(TRUE, <<"Cannot read properties of null">>)
    ELSE LET given == IF fn = "customTransform" THEN instruction ELSE Name(fn)
             started == BrowserTransformStart(BrowserModel, text, given,
                                              Spread(options))
             direct == BrowserTransformStart(BrowserModel, text, given, options)
             begun == IF fn = "customTransform" THEN direct ELSE started
         IN  IF begun.call
             THEN Suspend("browserTransform", text, given, begun.request)
             ELSE Return(TRUE, begun.result)

\* ------------------------------------------------------ request inputs

Texts == { Undefined, Str(<<>>), Str(<<"a">>) }

Actions ==
    { Undefined, Name("ARTICULATE"), Name("REFINE"), Name("EDIT"), Name("CUSTOM") }

Instructions == { Undefined, Str(<<>>), Str(<<"w">>), Str(<<"w", "a">>) }

SystemPrompts == { Undefined, Name("refine") }

OptionsInputs ==
    { Undefined, Null } \cup { Obj(i, sp) : i \in Instructions, sp \in SystemPrompts }

TransformBodies ==
    { Body(text, action, options, Undefined, Undefined, Undefined) :
        text \in Texts, action \in Actions, options \in OptionsInputs }

StyleGuideBodies ==
    { Body(Undefined, Undefined, Undefined, exampleText, additional, Undefined) :
        exampleText \in { Undefined, Str(<<>>), Str(<<"w">>), Str(<<"w", "a">>),
                          Number },
        additional \in { Undefined } }

ModelIdInputs ==
    { Undefined, Name(""), Name("claude-opus-4-1-20250805"), Name(DefaultModel),
      Name("constructor"), Name("gpt-4") }

ModelsSetBodies ==
    { Body(Undefined, Undefined, Undefined, Undefined, Undefined, modelId) :
        modelId \in ModelIdInputs }

\* ------------------------------------------------------------- state
\* model: this.model of the server's claudeAPI.  inflight: the requests
\* awaiting their provider call, in arrival order.  last: the request whose
\* handler has just written its response (res.json), with that response and
\* the provider calls the request made; NoLast once the response is sent.
\* A handler runs to its await or its response without interleaving, so
\* nothing else runs while a response is being written.

NoCall == [kind |-> "none", model |-> "", max_tokens |-> 0, system |-> "none",
           styleGuide |-> Undefined, temperature |-> Undefined]

NoPending ==
    [method |-> "none", action |-> Undefined, text |-> Undefined,
     instruction |-> Undefined, call |-> NoCall]

NoLast ==
    [route |-> "none", req |-> NoBody, pending |-> NoPending, status |-> 0,
     body |-> ErrorBody(<<>>), calls |-> <<>>, outcome |-> "none",
     overtook |-> FALSE, threw |-> FALSE]

NoGuide == [success |-> FALSE, error |-> <<>>, exampleText |-> Undefined,
            timestamp |-> "iso8601"]

\* prompt: what POST /api/transform came to for request, NoPrompt before.
\* In the life of one request it also holds the request's route, what the
\* client method keeps across its await, and the responses sent so far.
NoPrompt ==
    [built |-> FALSE, dispatched |-> FALSE, status |-> 0, call |-> NoCall,
     route |-> "none", pending |-> NoPending, sent |-> 0, variant |-> FALSE]

\* Promises that may await the provider (or the relay) at once.
MaxPromises == 1

\* apiInstance, apiClient, browserInstance: whether the module-level variable
\* of src/api.js, src/unnamed/part_000 and src/api-browser.js holds an
\* instance.  imodel: this.model of the instance apiInstance holds.  wpending:
\* the wrapper calls awaiting the provider or the relay; detached is the
\* this.model of an instance that initializeAPI has since replaced ("" while
\* the instance is the current one).  wlast: the wrapper call that has just
\* ended, with how it ended.
NoReply == [kind |-> "none"]

NoWrapperCall ==
    [module |-> "none", fn |-> "none", how |-> "none", error |-> <<>>,
     value |-> Undefined, method |-> "none", calls |-> <<>>, outcome |-> "none",
     initialized |-> FALSE, text |-> Undefined, reply |-> NoReply]

Init ==
    /\ model = DefaultModel
    /\ inflight = <<>>
    /\ last = NoLast
    /\ apiInstance = FALSE
    /\ apiClient = FALSE
    /\ browserInstance = FALSE
    /\ imodel = DefaultModel
    /\ wpending = <<>>
    /\ wlast = NoWrapperCall
    /\ response = <<>>
    /\ guide = NoGuide
    /\ request = NoBody
    /\ prompt = NoPrompt

\* A route answered without awaiting anything.
Respond(route, body, answer) ==
    last' = [route |-> route, req |-> body, pending |-> NoPending,
             status |-> answer.status, body |-> answer.body, calls |-> <<>>,
             outcome |-> "none", overtook |-> FALSE, threw |-> answer.threw]

\* A server that takes no request while one awaits its provider call.
HandleOneAtATime(route, body, outcome) ==
    IF outcome.answered
    THEN /\ inflight = <<>>
         /\ Respond(route, body, outcome)
         /\ UNCHANGED inflight
    ELSE /\ inflight = <<>>
         /\ inflight' = Append(inflight, [route |-> route, pending |-> outcome.pending,
                                          calls |-> outcome.calls])
         /\ UNCHANGED last

\* A route that answers or starts awaiting its provider call.
Handle(route, body, outcome) ==
    IF outcome.answered
    THEN /\ Respond(route, body, outcome)
         /\ UNCHANGED inflight
    ELSE /\ Len(inflight) < MaxInFlight
         /\ inflight' = Append(inflight, [route |-> route, pending |-> outcome.pending,
                                          calls |-> outcome.calls])
         /\ UNCHANGED last

PostTransform ==
    /\ last.route = "none"
    /\ \E body \in TransformBodies :
           Handle("transform", body, TransformRoute(model, body))
    /\ UNCHANGED <<model, wrapperVars, guideVars>>

PostGenerateStyleGuide ==
    /\ last.route = "none"
    /\ \E body \in StyleGuideBodies :
           Handle("generate-style-guide", body, StyleGuideRoute(model, body))
    /\ UNCHANGED <<model, wrapperVars, guideVars>>

GetModels ==
    /\ last.route = "none"
    /\ Respond("models", NoBody, ModelsRoute(model))
    /\ UNCHANGED <<model, inflight, wrapperVars, guideVars>>

PostModelsSet ==
    /\ last.route = "none"
    /\ \E body \in ModelsSetBodies :
           LET r == ModelsSetRoute(model, body)
           IN  /\ model' = r.model
               /\ Respond("models/set", body, Answer(r.status, r.body))
    /\ UNCHANGED <<inflight, wrapperVars, guideVars>>

GetHealth ==
    /\ last.route = "none"
    /\ Handle("health", NoBody,
              Await("validateConnection", Undefined, Undefined, Undefined,
                    ValidateCall(model)))
    /\ UNCHANGED <<model, wrapperVars, guideVars>>

\* The provider call of the i-th waiting request settles with outcome; the
\* route's continuation runs and answers.
Settle(i, outcome) ==
    LET r == inflight[i]
        answer == RouteSettle(model, r.route, r.pending, outcome)
    IN  /\ inflight' = SubSeq(inflight, 1, i - 1) \o
                       SubSeq(inflight, i + 1, Len(inflight))
        /\ last' = [route |-> r.route, req |-> NoBody, pending |-> r.pending,
                    status |-> answer.status, body |-> answer.body,
                    calls |-> r.calls,
                    outcome |-> outcome.kind, overtook |-> i > 1,
                    threw |-> answer.threw]

\* The provider call of a waiting request settles; the route answers.
ProviderSettles ==
    /\ last.route = "none"
    /\ \E i \in 1..Len(inflight), outcome \in ProviderOutcomes : Settle(i, outcome)
    /\ UNCHANGED <<model, wrapperVars, guideVars>>

\* The response just written leaves the server.
ResponseSent ==
    /\ last.route # "none"
    /\ last' = NoLast
    /\ UNCHANGED <<model, inflight, wrapperVars, guideVars>>

Next ==
    \/ PostTransform
    \/ PostGenerateStyleGuide
    \/ GetModels
    \/ PostModelsSet
    \/ GetHealth
    \/ ProviderSettles
    \/ ResponseSent

Spec == Init /\ [][Next]_vars

\* ------------------------------------------- the module-level wrappers

\* The wrapper call ended (threw, or its promise settled).
Ended(module, fn, text, r, method, calls, outcome, initialized) ==
    wlast' = [module |-> module, fn |-> fn, how |-> r.how, error |-> r.error,
              value |-> r.value, method |-> method, calls |-> calls,
              outcome |-> outcome.kind, initialized |-> initialized,
              text |-> text, reply |-> outcome]

\* A wrapper call that ends at once or starts awaiting.
Called(module, fn, text, r, initialized) ==
    IF r.done
    THEN /\ Ended(module, fn, text, r, "none", <<>>, NoReply, initialized)
         /\ UNCHANGED wpending
    ELSE /\ Len(wpending) < MaxPromises
         /\ wpending' = Append(wpending,
                [module |-> module, fn |-> fn, pending |-> r.pending,
                 detached |-> ""])
         /\ UNCHANGED wlast

\* initializeAPI of src/api.js: a new instance, with the default model; the
\* calls in flight stay with the instance they were made on.
InitializeAPI ==
    /\ wlast.how = "none"
    /\ apiInstance' = TRUE
    /\ imodel' = DefaultModel
    /\ wpending' = [i \in 1..Len(wpending) |->
                      IF wpending[i].module = "api" /\ wpending[i].detached = ""
                      THEN [wpending[i] EXCEPT !.detached = imodel]
                      ELSE wpending[i]]
    /\ UNCHANGED <<apiClient, browserInstance, wlast, serverVars, guideVars>>

\* initializeAPI of src/unnamed/part_000.
InitializeClient ==
    /\ wlast.how = "none"
    /\ apiClient' = TRUE
    /\ UNCHANGED <<apiInstance, browserInstance, imodel, wpending, wlast,
                   serverVars, guideVars>>

\* initializeAPI of src/api-browser.js.
InitializeBrowser ==
    /\ wlast.how = "none"
    /\ browserInstance' = TRUE
    /\ UNCHANGED <<apiInstance, apiClient, imodel, wpending, wlast,
                   serverVars, guideVars>>

WrapperTexts == { Str(<<"a">>), Str(<<"w", "a">>) }

\* The text the stub's wrappers are called with.
ClientTexts == { Str(<<"a">>) }

WrapperOptions == { Undefined, Null, Obj(Undefined, Undefined) }

\* The arguments a wrapper is called with: only those it declares vary, and
\* the text varies for one wrapper of each module that reaches transform.
WrapperArgs(fn) ==
    { [text |-> text, instruction |-> instruction, options |-> options,
       modelId |-> modelId] :
        text \in IF fn \in {"refineText", "simplifyText"}
                 THEN WrapperTexts ELSE {Str(<<"a">>)},
        instruction \in IF fn \in {"editText", "customTransform"}
                        THEN Instructions ELSE {Undefined},
        options \in IF fn \in {"setModel", "getAvailableModels", "getCurrentModel",
                               "getModels", "generateStyleGuide"}
                    THEN {Undefined} ELSE WrapperOptions,
        modelId \in IF fn = "setModel" THEN ModelIdInputs ELSE {Undefined} }

CallApiWrapper ==
    /\ wlast.how = "none"
    /\ \E fn \in ApiWrappers :
         \E a \in WrapperArgs(fn) :
           /\ Called("api", fn, a.text,
                     ApiWrapper(apiInstance, imodel, fn, a.text, a.instruction,
                                a.options, a.modelId),
                     apiInstance)
           /\ imodel' = IF apiInstance /\ fn = "setModel"
                        THEN SetModel(imodel, a.modelId).model ELSE imodel
    /\ UNCHANGED <<apiInstance, apiClient, browserInstance, serverVars, guideVars>>

CallClientWrapper ==
    /\ wlast.how = "none"
    /\ \E fn \in ClientWrappers :
         \E text \in ClientTexts :
           Called("client", fn, text, ClientWrapper(apiClient, fn, text), apiClient)
    /\ UNCHANGED <<apiInstance, apiClient, browserInstance, imodel, serverVars,
                   guideVars>>

CallBrowserWrapper ==
    /\ wlast.how = "none"
    /\ \E fn \in BrowserWrappers :
         \E a \in WrapperArgs(fn) :
           Called("browser", fn, a.text,
                  BrowserWrapper(browserInstance, fn, a.text, a.instruction,
                                 a.options),
                  browserInstance)
    /\ UNCHANGED <<apiInstance, apiClient, browserInstance, imodel, serverVars,
                   guideVars>>

\* The outcomes the awaited party can settle a pending wrapper call with.
OutcomesFor(module) ==
    CASE module = "api" -> ProviderOutcomes
      [] module = "client" -> RelayOutcomes
      [] OTHER -> FetchOutcomes

\* The value the pending wrapper call w resolves with.
WrapperSettle(m, w, outcome) ==
    CASE w.module = "api" ->
           MethodSettle(IF w.detached = "" THEN m ELSE w.detached, w.pending, outcome)
      [] w.module = "client" -> ClientSettle(w.fn, w.pending.text, outcome)
      [] w.pending.method = "browserValidate" ->
           BrowserValidateConnectionSettle(BrowserModel, outcome)
      [] OTHER ->
           BrowserTransformSettle(BrowserModel, w.pending.text,
                                  w.pending.instruction, outcome)

\* The awaited call of the i-th pending wrapper call settles.
WrapperSettles ==
    /\ wlast.how = "none"
    /\ \E i \in 1..Len(wpending) :
         \E outcome \in OutcomesFor(wpending[i].module) :
           LET w == wpending[i]
           IN  /\ wpending' = SubSeq(wpending, 1, i - 1) \o
                              SubSeq(wpending, i + 1, Len(wpending))
               /\ Ended(w.module, w.fn, w.pending.text,
                        Return(TRUE, WrapperSettle(imodel, w, outcome)),
                        w.pending.method, <<w.pending.call>>, outcome, TRUE)
    /\ UNCHANGED <<apiInstance, apiClient, browserInstance, imodel, serverVars,
                   guideVars>>

\* The caller has seen how the wrapper call ended.
WrapperCallSeen ==
    /\ wlast.how # "none"
    /\ wlast' = NoWrapperCall
    /\ UNCHANGED <<apiInstance, apiClient, browserInstance, imodel, wpending,
                   serverVars, guideVars>>

NextWrappers ==
    \/ InitializeAPI
    \/ InitializeClient
    \/ InitializeBrowser
    \/ CallApiWrapper
    \/ CallClientWrapper
    \/ CallBrowserWrapper
    \/ WrapperSettles
    \/ WrapperCallSeen

SpecWrappers == Init /\ [][NextWrappers]_vars

\* ------------------------------------------- the connection probes

\* validateConnection called on the instance initializeAPI of
\* src/api-browser.js returned.
ValidateBrowserConnection ==
    /\ wlast.how = "none"
    /\ browserInstance
    /\ Called("browser", "validateConnection", Undefined,
              Suspend("browserValidate", Undefined, Undefined,
                      BrowserValidateCall(BrowserModel)),
              TRUE)
    /\ UNCHANGED <<apiInstance, apiClient, browserInstance, imodel, serverVars,
                   guideVars>>

\* GET /api/health of the relay, and validateConnection of the browser variant.
NextHealth ==
    \/ GetHealth
    \/ ProviderSettles
    \/ ResponseSent
    \/ InitializeBrowser
    \/ ValidateBrowserConnection
    \/ WrapperSettles
    \/ WrapperCallSeen

SpecHealth == Init /\ [][NextHealth]_vars

\* ------------------------------------------- the style-guide parser alone

\* Every token sequence of length at most n.
Responses(n) == UNION { [1..k -> ResponseTokens] : k \in 0..n }

InitGuide ==
    /\ model = DefaultModel
    /\ inflight = <<>>
    /\ last = NoLast
    /\ apiInstance = FALSE
    /\ apiClient = FALSE
    /\ browserInstance = FALSE
    /\ imodel = DefaultModel
    /\ wpending = <<>>
    /\ wlast = NoWrapperCall
    /\ response \in Responses(MaxRespLen)
    /\ guide = NoGuide
    /\ request = NoBody
    /\ prompt = NoPrompt

\* generateStyleGuide returns for a provider reply whose text is response.
StyleGuideReturns ==
    /\ guide = NoGuide
    /\ guide' = GenerateStyleGuideSettle(model, Str(<<"a">>), Str(<<>>),
                    [kind |-> "ok", text |-> response, message |-> <<>>])
    /\ UNCHANGED <<response, request, prompt, serverVars, wrapperVars>>

NextGuide == StyleGuideReturns

SpecGuide == InitGuide /\ [][NextGuide]_vars

\* ------------------------------------------- the prompt builder alone

\* The style guides a request's options may carry: none, an empty string, a
\* string, a number, and objects with or without each of their guides.
StyleGuides ==
    { Undefined, Name(""), Name("legacy guide"), Number } \cup
    { GuideObject(comprehensive, concise, legacy) :
        comprehensive \in { Undefined, Name(""), Name("comprehensive guide") },
        concise \in { Undefined, Name(""), Name("concise guide") },
        legacy \in { Undefined, Name("legacy guide") } }

\* Transform requests with text and a style guide in their options.
StyledBodies ==
    { Body(Str(<<"a">>), action,
           WithStyleGuide(Obj(instruction, systemPrompt), styleGuide),
           Undefined, Undefined, Undefined) :
        action \in Actions \ {Undefined},
        instruction \in { Undefined, Str(<<"w", "a">>) },
        systemPrompt \in SystemPrompts,
        styleGuide \in StyleGuides }

InitPrompt ==
    /\ model = DefaultModel
    /\ inflight = <<>>
    /\ last = NoLast
    /\ apiInstance = FALSE
    /\ apiClient = FALSE
    /\ browserInstance = FALSE
    /\ imodel = DefaultModel
    /\ wpending = <<>>
    /\ wlast = NoWrapperCall
    /\ response = <<>>
    /\ guide = NoGuide
    /\ request \in StyledBodies
    /\ prompt = NoPrompt

\* POST /api/transform handles request: the prompt of the provider call it
\* issues, or the status it answers with when it issues none.
PromptBuilt ==
    /\ ~prompt.built
    /\ LET r == TransformRoute(model, request)
       IN  prompt' = IF r.answered
                     THEN [prompt EXCEPT !.built = TRUE, !.status = r.status,
                                         !.sent = r.sent]
                     ELSE [prompt EXCEPT !.built = TRUE, !.dispatched = TRUE,
                                         !.call = r.pending.call,
                                         !.pending = r.pending]
    /\ UNCHANGED <<request, response, guide, serverVars, wrapperVars>>

NextPrompt == PromptBuilt

SpecPrompt == InitPrompt /\ [][NextPrompt]_vars

\* ------------------------------------------- the life of one request

\* The routes of the relay that answer with JSON.
Routes == { "transform", "generate-style-guide", "models", "models/set", "health" }

\* The bodies a request to route may carry.
BodiesOf(route) ==
    CASE route = "transform" -> TransformBodies
      [] route = "generate-style-guide" -> StyleGuideBodies
      [] route = "models/set" -> ModelsSetBodies
      [] OTHER -> { NoBody }

\* The handler of route run on body, up to its response or its await.
RouteOutcome(m, route, body) ==
    CASE route = "transform" -> TransformRoute(m, body)
      [] route = "generate-style-guide" -> StyleGuideRoute(m, body)
      [] route = "models" -> ModelsRoute(m)
      [] route = "models/set" ->
           Answer(ModelsSetRoute(m, body).status, ModelsSetRoute(m, body).body)
      [] OTHER -> Await("validateConnection", Undefined, Undefined, Undefined,
                        ValidateCall(m))

InitLife ==
    /\ model = DefaultModel
    /\ inflight = <<>>
    /\ last = NoLast
    /\ apiInstance = FALSE
    /\ apiClient = FALSE
    /\ browserInstance = FALSE
    /\ imodel = DefaultModel
    /\ wpending = <<>>
    /\ wlast = NoWrapperCall
    /\ response = <<>>
    /\ guide = NoGuide
    /\ \E route \in Routes :
           /\ request \in BodiesOf(route)
           /\ prompt = [NoPrompt EXCEPT !.route = route]

\* The request's handler runs: it answers, or it issues a provider call and
\* awaits it.
RequestHandled ==
    /\ ~prompt.built
    /\ LET r == RouteOutcome(model, prompt.route, request)
       IN  prompt' = IF r.answered
                     THEN [prompt EXCEPT !.built = TRUE, !.status = r.status,
                                         !.sent = @ + r.sent]
                     ELSE [prompt EXCEPT !.built = TRUE, !.dispatched = TRUE,
                                         !.call = r.pending.call,
                                         !.pending = r.pending]
    /\ model' = IF prompt.route = "models/set"
                THEN ModelsSetRoute(model, request).model ELSE model
    /\ UNCHANGED <<inflight, last, request, response, guide, wrapperVars>>

\* The provider call the request awaits settles: the handler's continuation
\* runs and answers.
RequestSettles ==
    /\ prompt.dispatched
    /\ prompt.status = 0
    /\ \E outcome \in ProviderOutcomes :
           LET answer == RouteSettle(model, prompt.route, prompt.pending, outcome)
           IN  prompt' = [prompt EXCEPT !.status = answer.status,
                                        !.sent = @ + answer.sent]
    /\ UNCHANGED <<request, response, guide, serverVars, wrapperVars>>

NextLife ==
    \/ RequestHandled
    \/ RequestSettles

\* The server runs the handler of a request it received, and the provider
\* call of a waiting request settles: both steps are taken when they can be.
SpecLife ==
    /\ InitLife
    /\ [][NextLife]_vars
    /\ WF_vars(RequestHandled)
    /\ WF_vars(RequestSettles)

\* ------------------------------------- the parameters of the provider call

\* options.systemPrompt as a request may carry it.
ParamSystemPrompts ==
    { Undefined, Name("articulate"), Name("refine"), Name("edit"), Name("custom") }

\* options.max_tokens as a request may carry it.
ParamMaxTokens == { Undefined, Num(0), Num(50) }

\* options.temperature as a request may carry it: none, 0, 0.3, 0.7.
ParamTemperatures == { Undefined, Num(0), Num(3), Num(7) }

\* Transform requests with text, an instruction and call parameters in their
\* options.
ParamBodies ==
    { Body(Str(<<"a">>), action,
           WithParams(Obj(Str(<<"a">>), systemPrompt), max_tokens, temperature),
           Undefined, Undefined, Undefined) :
        action \in Actions \ {Undefined},
        systemPrompt \in ParamSystemPrompts,
        max_tokens \in ParamMaxTokens,
        temperature \in ParamTemperatures }

\* POST /api/transform with claudeAPI an instance of either client class.
ParamsRoute(variant, m, body) ==
    IF variant THEN VariantTransformRoute(m, body) ELSE TransformRoute(m, body)

InitParams ==
    /\ model = DefaultModel
    /\ inflight = <<>>
    /\ last = NoLast
    /\ apiInstance = FALSE
    /\ apiClient = FALSE
    /\ browserInstance = FALSE
    /\ imodel = DefaultModel
    /\ wpending = <<>>
    /\ wlast = NoWrapperCall
    /\ response = <<>>
    /\ guide = NoGuide
    /\ request \in ParamBodies
    /\ prompt = NoPrompt

\* The route handles request with claudeAPI of the class variant says: the
\* provider call it issues, or the status it answers with.
Sent(variant) ==
    /\ ~prompt.built
    /\ LET r == ParamsRoute(variant, model, request)
       IN  prompt' = IF r.answered
                     THEN [prompt EXCEPT !.built = TRUE, !.status = r.status,
                                         !.sent = r.sent, !.variant = variant]
                     ELSE [prompt EXCEPT !.built = TRUE, !.dispatched = TRUE,
                                         !.call = r.pending.call,
                                         !.pending = r.pending,
                                         !.variant = variant]
    /\ UNCHANGED <<request, response, guide, serverVars, wrapperVars>>

\* The request is handled by the server of src/api.js.
ParamsSent == Sent(FALSE)

\* The request is handled by a server whose client has per-action token limits.
VariantParamsSent == Sent(TRUE)

NextParams ==
    \/ ParamsSent
    \/ VariantParamsSent

SpecParams == InitParams /\ [][NextParams]_vars

\* ================================================================ claims

\* The client methods that end in transform.
TransformMethods == { "articulate", "refine", "edit", "browserTransform" }

\* C1: whenever the provider call made by transform fails (a non-2xx status
\* or a network failure), the promise transform returned resolves, never
\* rejects, and resolves with success = false and a non-empty error string.
C1_FailedCallIsReturned ==
    (wlast.method \in TransformMethods /\ wlast.outcome \in {"http", "network"})
        => /\ wlast.how = "resolve"
           /\ wlast.value.success = FALSE
           /\ NonEmptyMessage(wlast.value.error)

\* C1 witness: a transform of src/api.js whose provider call came back non-2xx
\* has resolved with a failure result.
C1_Witness ==
    /\ wlast.module = "api"
    /\ wlast.method = "refine"
    /\ wlast.outcome = "http"
    /\ wlast.how = "resolve"
    /\ wlast.value.success = FALSE

\* Whether options carries no instruction: options.instruction is undefined
\* (or options has no properties at all) or the empty string.
InstructionMissing(options) ==
    IF options.t = "object" THEN ~Truthy(options.instruction) ELSE TRUE

\* C2: every POST /api/transform request whose action is EDIT or CUSTOM and
\* whose options.instruction is empty or missing is answered with status 400
\* and success = false.
C2_EmptyInstructionIs400 ==
    (/\ last.route = "transform"
     /\ last.req.action \in {Name("EDIT"), Name("CUSTOM")}
     /\ InstructionMissing(last.req.options))
        => (last.status = 400 /\ last.body.success = FALSE)

\* C3: POST /api/models/set with a modelId that is a string but no registry
\* identifier is answered 400 with success = false and leaves the current
\* model as it was.
C3_UnknownModelRejected ==
    [][(/\ last.route = "none"
        /\ last'.route = "models/set"
        /\ last'.req.modelId.t = "name"
        /\ last'.req.modelId.n \notin RegistryIds)
           => (/\ last'.status = 400
               /\ last'.body.success = FALSE
               /\ model' = model)]_vars

\* Whether token tok occurs in s.
Contains(s, tok) == \E i \in 1..Len(s) : s[i] = tok

\* Whether s holds a character that is not whitespace.
HasText(s) == \E i \in 1..Len(s) : s[i] # "w"

\* The documented layout of a reply r: at i1 the first header
\* "=== UMFASSENDER STYLE GUIDE", closed by the "===" at j1; at i2 the first
\* header "=== PRÄZISER STYLE GUIDE", closed by the "===" at j2.
Layout(r, i1, j1, i2, j2) ==
    /\ i1 < j1 /\ j1 < i2 /\ i2 < j2
    /\ r[i1] = "HU" /\ r[j1] = "E" /\ r[i2] = "HP" /\ r[j2] = "E"
    /\ \A k \in 1..(i1 - 1) : r[k] \notin {"HU", "HP"}
    /\ \A k \in (i1 + 1)..(j1 - 1) : r[k] \notin OpensWithEquals
    /\ \A k \in (j1 + 1)..(i2 - 1) : r[k] # "HP"
    /\ \A k \in (i2 + 1)..(j2 - 1) : r[k] \notin OpensWithEquals

\* C4 as stated: a reply that contains both markers gives success = true and
\* two non-empty guides.
C4_BothMarkersBothNonEmpty ==
    (guide # NoGuide /\ Contains(response, "HU") /\ Contains(response, "HP"))
        => /\ guide.success
           /\ guide.comprehensiveGuide # <<>>
           /\ guide.conciseGuide # <<>>

\* C4 amended: for a reply in the documented layout generateStyleGuide returns
\* success = true, comprehensiveGuide the trimmed text between the first
\* header and the second header, conciseGuide the trimmed text after the
\* second header; a guide is non-empty exactly when its section holds a
\* character that is not whitespace.
C4_LayoutIsSplit ==
    guide # NoGuide =>
        \A i1, j1, i2, j2 \in 1..Len(response) :
            Layout(response, i1, j1, i2, j2) =>
                LET first == SubSeq(response, j1 + 1, i2 - 1)
                    second == SubSeq(response, j2 + 1, Len(response))
                IN  /\ guide.success
                    /\ guide.comprehensiveGuide = Trim(first)
                    /\ guide.conciseGuide = Trim(second)
                    /\ (guide.comprehensiveGuide # <<>>) <=> HasText(first)
                    /\ (guide.conciseGuide # <<>>) <=> HasText(second)

\* C4 witness: a reply in the documented layout was split into two non-empty
\* guides.
C4_Witness ==
    /\ guide # NoGuide
    /\ \E i1, j1, i2, j2 \in 1..Len(response) : Layout(response, i1, j1, i2, j2)
    /\ guide.comprehensiveGuide # <<>>
    /\ guide.conciseGuide # <<>>

\* C5: for a reply that contains neither marker generateStyleGuide returns
\* success = true, comprehensiveGuide and fullResponse the trimmed reply, and
\* conciseGuide the empty string.
C5_NoMarkersWholeReply ==
    (guide # NoGuide /\ ~Contains(response, "HU") /\ ~Contains(response, "HP"))
        => /\ guide.success
           /\ guide.comprehensiveGuide = Trim(response)
           /\ guide.conciseGuide = <<>>
           /\ guide.fullResponse = Trim(response)

\* C5 witness: a reply without markers, with text, a bare "===" and
\* whitespace around it, came back whole.
C5_Witness ==
    /\ guide # NoGuide
    /\ ~Contains(response, "HU") /\ ~Contains(response, "HP")
    /\ Contains(response, "E") /\ HasText(response)
    /\ Len(response) > 0 /\ response[1] = "w"
    /\ guide.comprehensiveGuide = Trim(response)
    /\ guide.comprehensiveGuide # response

\* The template each valid action is meant to reach.
TemplateFor(action) ==
    CASE action = Name("ARTICULATE") -> "articulate"
      [] action = Name("REFINE") -> "refine"
      [] action = Name("EDIT") -> "edit"
      [] OTHER -> "none"

ValidActions == { Name("ARTICULATE"), Name("REFINE"), Name("EDIT") }

\* A transform request no check rejects: text and a valid action and, for
\* EDIT, an instruction with a character that is not whitespace.
PassesValidation(req) ==
    /\ Truthy(req.text)
    /\ req.action \in ValidActions
    /\ req.action = Name("EDIT") =>
           /\ req.options.t = "object"
           /\ ~EditRejects(req.options.instruction)

\* C6: a POST /api/transform request that passes validation with a valid
\* action is not answered before it has dispatched; it dispatches once, with
\* the template of its action and no other, while it waits and when it is
\* answered.
C6_DispatchMatchesAction ==
    /\ \A i \in 1..Len(inflight) :
           inflight[i].route = "transform" =>
               /\ inflight[i].pending.action \in ValidActions
               /\ inflight[i].pending.call.system =
                      TemplateFor(inflight[i].pending.action)
    /\ (last.route = "transform" /\ last.pending.method # "none") =>
           /\ last.pending.action \in ValidActions
           /\ Len(last.calls) = 1
           /\ last.calls[1].system = TemplateFor(last.pending.action)
    /\ (last.route = "transform" /\ last.pending.method = "none") =>
           ~PassesValidation(last.req)

\* C6 witness: an ARTICULATE request and an EDIT request were dispatched, the
\* EDIT request has been answered, each with its own template.
C6_Witness ==
    /\ last.route = "transform"
    /\ last.pending.action = Name("EDIT")
    /\ Len(last.calls) = 1 /\ last.calls[1].system = "edit"
    /\ \E i \in 1..Len(inflight) :
           /\ inflight[i].pending.action = Name("ARTICULATE")
           /\ inflight[i].pending.call.system = "articulate"

\* Whether the request answered last lacks a field its route requires.
LacksRequiredField ==
    \/ last.route = "transform" /\ last.pending.method = "none"
         /\ (~Truthy(last.req.text) \/ ~Truthy(last.req.action))
    \/ last.route = "generate-style-guide" /\ last.pending.method = "none"
         /\ ~Truthy(last.req.exampleText)
    \/ last.route = "models/set" /\ ~Truthy(last.req.modelId)

\* C7: a request that lacks a required field is answered 400 with
\* success = false and an error string, and makes no provider call: no
\* request waiting on the provider, or answered after waiting, lacks one.
C7_MissingFieldIs400 ==
    /\ LacksRequiredField =>
           /\ last.status = 400
           /\ last.body.success = FALSE
           /\ NonEmptyMessage(last.body.error)
           /\ last.calls = <<>>
    /\ \A i \in 1..Len(inflight) :
           inflight[i].route \in {"transform", "generate-style-guide"} =>
               Truthy(inflight[i].pending.text)
    /\ \A i \in 1..Len(inflight) :
           inflight[i].route = "transform" => Truthy(inflight[i].pending.action)
    /\ (last.route \in {"transform", "generate-style-guide"}
          /\ last.pending.method # "none") => Truthy(last.pending.text)

\* C7 witness: a transform request without text was answered 400 while
\* another request was waiting on the provider.
C7_Witness ==
    /\ last.route = "transform"
    /\ last.req.text = Undefined
    /\ last.req.action = Name("REFINE")
    /\ last.status = 400
    /\ Len(inflight) > 0

\* A successful POST /api/models/set is being answered in this step.
SetModelSucceeds ==
    /\ last.route = "none"
    /\ last'.route = "models/set"
    /\ last'.status = 200

C9_ResultModelIsCurrent ==
    (last.route = "transform" /\ last.pending.method # "none"
        /\ last.body.success)
        => last.body.model = model

\* C9 witness: a transform succeeded after the model was changed while it
\* waited; its result names the new model, not the one it sent.
C9_Witness ==
    /\ last.route = "transform"
    /\ last.pending.method # "none"
    /\ last.body.success
    /\ last.calls[1].model = DefaultModel
    /\ last.body.model = "claude-opus-4-1-20250805"

\* The wrappers C10 names.
NamedWrappers ==
    { "articulateText", "refineText", "editText", "generateStyleGuide",
      "setModel", "getAvailableModels", "getCurrentModel" }

\* A wrapper C10 names, of src/api.js or src/unnamed/part_000, has just ended.
NamedWrapperEnded ==
    /\ wlast.module \in {"api", "client"}
    /\ wlast.fn \in NamedWrappers

\* C10 as stated: before initializeAPI every wrapper throws the error
\* synchronously, without a provider call; after it no wrapper raises it.
C10_ThrownSynchronously ==
    NamedWrapperEnded =>
        IF wlast.initialized
        THEN wlast.error # NotInitialized
        ELSE /\ wlast.how = "throw"
             /\ wlast.error = NotInitialized
             /\ wlast.calls = <<>>

\* C10 amended: before initializeAPI every wrapper fails with the error
\* without a provider call -- the wrappers that are plain functions throw it
\* synchronously, the async ones return a promise rejected with it -- and no
\* call of an uninitialized module is ever waiting; after initializeAPI no
\* wrapper raises that error.
C10_RaisedBeforeAnyCall ==
    /\ NamedWrapperEnded =>
           IF wlast.initialized
           THEN wlast.error # NotInitialized
           ELSE /\ wlast.how = IF IsAsync(wlast.module, wlast.fn)
                               THEN "reject" ELSE "throw"
                /\ wlast.error = NotInitialized
                /\ wlast.calls = <<>>
    /\ \A i \in 1..Len(wpending) :
           /\ wpending[i].module = "api" => apiInstance
           /\ wpending[i].module = "client" => apiClient

\* C10 witness: articulateText of src/api.js, called before initializeAPI,
\* ended as a rejected promise carrying the error.
C10_Witness ==
    /\ wlast.module = "api"
    /\ wlast.fn = "articulateText"
    /\ ~wlast.initialized
    /\ wlast.how = "reject"
    /\ wlast.error = NotInitialized

\* The style guide the request carries in its options.
SuppliedStyleGuide == request.options.styleGuide

PassesStyleGuideValidation(req) ==
    req.exampleText.t = "string" /\ Trim(req.exampleText.v) # <<>>

\* C12: every request issues at most one provider call: a request that waits
\* on the provider has issued exactly one; a request answered without waiting
\* (rejected, or served without the provider) has issued none, and no request
\* that passes validation is answered that way; a request answered after
\* waiting, whether its call succeeded or failed, has issued exactly that one.
C12_OneCallPerRequest ==
    /\ \A i \in 1..Len(inflight) :
           inflight[i].calls = <<inflight[i].pending.call>>
    /\ (last.route # "none" /\ last.pending.method = "none") =>
           /\ last.calls = <<>>
           /\ last.route = "transform" => ~PassesValidation(last.req)
           /\ last.route = "generate-style-guide" =>
                  ~PassesStyleGuideValidation(last.req)
    /\ (last.route # "none" /\ last.pending.method # "none") =>
           last.calls = <<last.pending.call>>
    /\ (last.route # "none" /\ last.status # 200) => last.calls = <<>>

\* C12 witness: a transform request whose provider call failed was answered
\* having made that one call, while another request still waits on its own.
C12_Witness ==
    /\ last.route = "transform"
    /\ last.outcome = "network"
    /\ Len(last.calls) = 1
    /\ last.body.success = FALSE
    /\ Len(inflight) > 0

\* C13: a request during whose handling an exception was thrown is answered
\* with status 500 and the body { success: false, error: <message> }.
C13_ThrownIs500 ==
    (last.route # "none" /\ last.threw) =>
        /\ last.status = 500
        /\ DOMAIN last.body = {"success", "error"}
        /\ last.body.success = FALSE
        /\ NonEmptyMessage(last.body.error)

\* C13 witness: an EDIT request whose instruction is whitespace, for which
\* edit rejects, was answered 500 with edit's message.
C13_Witness ==
    /\ last.route = "transform"
    /\ last.threw
    /\ last.req.action = Name("EDIT")
    /\ last.req.options.t = "object"
    /\ last.status = 500
    /\ last.body.error = EditError

\* A transform or generate-style-guide request has been answered after its
\* provider call failed (a non-2xx status or a network failure).
ProviderCallFailed ==
    /\ last.route \in {"transform", "generate-style-guide"}
    /\ last.outcome \in {"http", "network"}

\* C14 as stated: when the provider call fails the response carries
\* success = false, an error message and status 500.
C14_FailedCallIs500 ==
    ProviderCallFailed =>
        /\ last.body.success = FALSE
        /\ NonEmptyMessage(last.body.error)
        /\ last.status = 500

\* C14 amended: when the provider call fails the response carries
\* success = false and an error message, with status 200: the client method
\* returns the failure as its result and the route relays it; no exception
\* was thrown in the handler.
C14_FailedCallIs200 ==
    ProviderCallFailed =>
        /\ last.body.success = FALSE
        /\ NonEmptyMessage(last.body.error)
        /\ last.status = 200
        /\ ~last.threw

\* C14 witness: a generate-style-guide request whose provider call came back
\* non-2xx was answered 200 with success = false.
C14_Witness ==
    /\ last.route = "generate-style-guide"
    /\ last.outcome = "http"
    /\ last.status = 200
    /\ last.body.success = FALSE

\* The wrappers whose promise resolves with what transform returned.
TransformWrappers ==
    { "articulateText", "refineText", "editText", "shortenText", "elongateText",
      "simplifyText", "customTransform" }

\* A call of transform (of src/api.js or src/api-browser.js) has returned.
TransformReturned ==
    /\ wlast.module \in {"api", "browser"}
    /\ wlast.fn \in TransformWrappers
    /\ wlast.how = "resolve"

\* C15: every result transform returns has one of two shapes: success = true
\* with transformedText and model and no error, or success = false with error
\* and no transformedText; in both originalText is the text passed in and a
\* timestamp is present.
C15_ResultShape ==
    TransformReturned =>
        LET fields == DOMAIN wlast.value
        IN  /\ {"success", "originalText", "timestamp"} \subseteq fields
            /\ wlast.value.success \in BOOLEAN
            /\ wlast.value.success =>
                   {"transformedText", "model"} \subseteq fields /\ "error" \notin fields
            /\ ~wlast.value.success =>
                   "error" \in fields /\ "transformedText" \notin fields
            /\ wlast.value.originalText = wlast.text

\* C15 witness: a transform of the browser variant whose fetch came back
\* non-2xx returned the failure shape, with the text it was given.
C15_Witness ==
    /\ TransformReturned
    /\ wlast.module = "browser"
    /\ wlast.outcome = "http"
    /\ ~wlast.value.success
    /\ wlast.value.originalText = Str(<<"w", "a">>)

\* C16: the current model is changed only by a successful setModel, which
\* makes its argument the current model: a step that answers any other
\* request (a rejected or failed setModel included), that starts a provider
\* call or that relays a provider outcome, whatever it is, leaves the current
\* model as it was.
C16_OnlySetModelChangesModel ==
    [][/\ model' # model =>
              /\ last.route = "none"
              /\ last'.route = "models/set"
              /\ last'.status = 200
              /\ last'.body.success
              /\ model' = last'.req.modelId.n
       /\ (last'.route \in {"transform", "generate-style-guide", "models", "health"})
              => model' = model
       /\ (last'.route = "models/set" /\ last'.status # 200) => model' = model
       /\ inflight' # inflight => model' = model]_vars

\* C16 witness: after a successful setModel, a setModel with an unknown
\* identifier was answered 400 and the model set before is still current
\* while a provider call is in flight.
C16_Witness ==
    /\ last.route = "models/set"
    /\ last.req.modelId = Name("gpt-4")
    /\ last.status = 400
    /\ model = "claude-opus-4-1-20250805"
    /\ Len(inflight) > 0

\* The server takes a transform request that passes validation, which issues
\* its provider call and waits.
AcceptsAnother ==
    /\ \E body \in TransformBodies :
           /\ PassesValidation(body)
           /\ Handle("transform", body, TransformRoute(model, body))
    /\ UNCHANGED <<model, wrapperVars, guideVars>>

\* The i-th waiting request is answered.
Answers(i) ==
    /\ \E outcome \in ProviderOutcomes : Settle(i, outcome)
    /\ UNCHANGED <<model, wrapperVars, guideVars>>

\* C17: while requests wait on the provider and the server is idle, another
\* request can be accepted and issue its own provider call (up to the number
\* of requests the model lets wait), and any waiting request, not only the
\* one that arrived first, can be the next to be answered.
C17_WaitingDoesNotBlock ==
    (last.route = "none" /\ Len(inflight) > 0) =>
        /\ Len(inflight) < MaxInFlight => ENABLED AcceptsAnother
        /\ \A i \in 1..Len(inflight) : ENABLED Answers(i)

\* C17 witness: a transform request that arrived later has been answered
\* while a request that arrived before it still waits on the provider.
C17_Witness ==
    /\ last.route = "transform"
    /\ last.overtook
    /\ last.body.success
    /\ Len(inflight) > 0
    /\ inflight[1].route = "transform"

\* Whether a probe that settled with an outcome of this kind succeeded: the
\* provider answered 2xx.
ProbeSucceeded(kind) == kind \notin {"http", "network"}

\* C18: validateConnection sends one probe (max_tokens 10) and never throws;
\* it returns success = true exactly when the probe call succeeds and
\* success = false with an error message when it fails; GET /api/health
\* answers 200 with that value in its claude field.
C18_ProbeReportsReachability ==
    /\ \A i \in 1..Len(inflight) :
           inflight[i].route = "health" =>
               /\ Len(inflight[i].calls) = 1
               /\ inflight[i].calls[1].kind = "validate"
               /\ inflight[i].calls[1].max_tokens = 10
    /\ last.route = "health" =>
           /\ last.status = 200 /\ ~last.threw
           /\ Len(last.calls) = 1 /\ last.calls[1].max_tokens = 10
           /\ last.body.status = "ok"
           /\ last.body.claude.success = ProbeSucceeded(last.outcome)
           /\ ~last.body.claude.success => NonEmptyMessage(last.body.claude.error)
    /\ wlast.fn = "validateConnection" =>
           /\ wlast.how = "resolve"
           /\ Len(wlast.calls) = 1 /\ wlast.calls[1].max_tokens = 10
           /\ wlast.value.success = ProbeSucceeded(wlast.outcome)
           /\ ~wlast.value.success => NonEmptyMessage(wlast.value.error)

\* C18 witness: GET /api/health was answered 200 with claude.success = false
\* after its probe met a network failure, and the browser variant's probe,
\* answered 2xx, is being reported as success.
C18_Witness ==
    /\ last.route = "health"
    /\ last.outcome = "network"
    /\ last.status = 200
    /\ last.body.claude.success = FALSE
    /\ wlast.fn = "validateConnection"
    /\ wlast.value.success = TRUE

\* A method of the frontend stub, called through its wrapper on an
\* initialized module, has ended.
ClientMethodEnded == wlast.module = "client" /\ wlast.initialized

\* The relay's reply was a 2xx reply.
Reply2xx(reply) == reply.kind = "reply" /\ reply.status \in 200..299

\* C19: callAPI, generateStyleGuide, getModels and setModel of the frontend
\* stub never throw: their promise resolves; with the body of a 2xx reply
\* unchanged; for a network failure or any other reply with an object whose
\* success is false and whose error is a non-empty string, the error field
\* of the server's body when it has one.
C19_StubReturnsFailures ==
    ClientMethodEnded =>
        /\ wlast.how = "resolve"
        /\ Len(wlast.calls) = 1
        /\ Reply2xx(wlast.reply) => wlast.value = wlast.reply.body
        /\ ~Reply2xx(wlast.reply) =>
               /\ wlast.value.success = FALSE
               /\ NonEmptyMessage(wlast.value.error)
               /\ (wlast.reply.kind = "reply" /\ wlast.reply.body.error # "") =>
                      wlast.value.error = <<wlast.reply.body.error>>

\* C19 witness: setModel of the stub, answered 400 by the relay, returned
\* the relay's error in a failure object.
C19_Witness ==
    /\ ClientMethodEnded
    /\ wlast.fn = "setModel"
    /\ wlast.reply.kind = "reply" /\ wlast.reply.status = 400
    /\ wlast.how = "resolve"
    /\ wlast.value.success = FALSE
    /\ wlast.value.error = <<wlast.reply.body.error>>

\* transform or generateStyleGuide has ended after the provider answered 2xx
\* with a body whose content array is missing or empty.
MalformedReplyHandled ==
    /\ wlast.method \in TransformMethods \cup {"generateStyleGuide"}
    /\ wlast.outcome \in {"malformed", "nocontent"}

\* C20: for a 2xx reply without content transform and generateStyleGuide
\* resolve (the exception does not escape) with success = false and an error
\* message, and with no transformed text or guide.
C20_MalformedReplyIsFailure ==
    MalformedReplyHandled =>
        /\ wlast.how = "resolve"
        /\ wlast.value.success = FALSE
        /\ NonEmptyMessage(wlast.value.error)
        /\ DOMAIN wlast.value \cap
               {"transformedText", "comprehensiveGuide", "conciseGuide",
                "fullResponse"} = {}

\* C20 witness: generateStyleGuide of src/api.js, answered 2xx without a
\* content array, resolved with a failure.
C20_Witness ==
    /\ wlast.module = "api"
    /\ wlast.method = "generateStyleGuide"
    /\ wlast.outcome = "nocontent"
    /\ wlast.how = "resolve"
    /\ wlast.value.success = FALSE

\* C21: a POST /api/transform request with action EDIT whose
\* options.instruction is only whitespace is answered 400, as a missing
\* instruction is, and makes no provider call.
C21_WhitespaceInstructionIs400 ==
    (/\ last.route = "transform"
     /\ last.pending.method = "none"
     /\ Truthy(last.req.text)
     /\ last.req.action = Name("EDIT")
     /\ last.req.options.t = "object"
     /\ last.req.options.instruction.t = "string"
     /\ last.req.options.instruction.v # <<>>
     /\ Trim(last.req.options.instruction.v) = <<>>)
        => (last.status = 400 /\ last.calls = <<>>)

\* C22: the model a successful transform result names is the model that was
\* sent to the provider in that request's call.
C22_ResultModelIsModelSent ==
    (last.route = "transform" /\ last.pending.method # "none"
        /\ last.body.success)
        => last.body.model = last.calls[1].model

\* A POST /api/models/set has just been answered with success.
ModelSetAnswered == last.route = "models/set" /\ last.status = 200

\* C23: the handler of POST /api/models/set sets the model and reads it back
\* without anything in between: the response of a successful set names the
\* identifier that request set, with the registry's name for it when the
\* identifier is valid, and that identifier is the current model when the
\* response is written, whatever was set before and whichever requests wait.
C23_SetAndReadAreAtomic ==
    ModelSetAnswered =>
        /\ last.body.currentModel.id = last.req.modelId.n
        /\ model = last.req.modelId.n
        /\ last.req.modelId.n \in RegistryIds =>
               last.body.currentModel.name = ModelName(last.req.modelId.n)

\* C23 witness: a set of one valid identifier, under which a provider call
\* was started that still waits, was followed by a set of another valid
\* identifier, whose response names its own identifier, now the current one.
C23_Witness ==
    /\ ModelSetAnswered
    /\ last.req.modelId = Name(DefaultModel)
    /\ last.body.currentModel.id = DefaultModel
    /\ model = DefaultModel
    /\ Len(inflight) > 0
    /\ inflight[1].pending.call.model = "claude-opus-4-1-20250805"

\* C24: the current model is always an identifier of the registry, and
\* getCurrentModel returns that entry's name.
C24_ModelIsRegistered ==
    /\ model \in RegistryIds
    /\ GetCurrentModel(model).name = ModelName(model)
    /\ GetCurrentModel(model).name # "undefined"

\* C25: a request never has more than one response sent for it, and, the
\* provider call it may await settling, it comes to have exactly one.
C25_ExactlyOneResponse ==
    /\ [](prompt.sent \in {0, 1})
    /\ <>(prompt.sent = 1)

\* C25 witness: an EDIT request that awaited the provider has its one
\* response, sent when the call settled.
C25_Witness ==
    /\ prompt.route = "transform"
    /\ request.action = Name("EDIT")
    /\ prompt.dispatched
    /\ prompt.status = 200
    /\ prompt.sent = 1

\* The template the claim expects for an action.
ActionTemplate(action) ==
    CASE action = Name("ARTICULATE") -> "articulate"
      [] action = Name("REFINE") -> "refine"
      [] OTHER -> "edit"

\* The token limit the dispatching methods of a client class fix.
ActionMaxTokens(variant) == IF variant THEN 8000 ELSE 1000

\* C26: the template and the token limit of the provider call follow from the
\* action alone: the call has the action's template and the class's limit,
\* and the same request with any other options.systemPrompt and
\* options.max_tokens gets a call with the same template and the same limit.
C26_TemplateFollowsAction ==
    prompt.dispatched =>
        /\ prompt.call.system = ActionTemplate(request.action)
        /\ prompt.call.max_tokens = ActionMaxTokens(prompt.variant)
        /\ \A systemPrompt \in ParamSystemPrompts, max_tokens \in ParamMaxTokens :
               LET other == [request EXCEPT
                                !.options.systemPrompt = systemPrompt,
                                !.options.max_tokens = max_tokens]
                   r == ParamsRoute(prompt.variant, model, other)
               IN  /\ ~r.answered
                   /\ r.pending.call.system = prompt.call.system
                   /\ r.pending.call.max_tokens = prompt.call.max_tokens

\* C26 witness: a REFINE request asking for the edit template and 50 tokens
\* got the refine template and the limit refine sets.
C26_Witness ==
    /\ prompt.dispatched
    /\ prompt.variant
    /\ request.action = Name("REFINE")
    /\ request.options.systemPrompt = Name("edit")
    /\ request.options.max_tokens = Num(50)
    /\ prompt.call.system = "refine"
    /\ prompt.call.max_tokens = 8000

\* C27: the temperature of the provider call is options.temperature whenever
\* the request supplies one, 0 included, and the default 0.3 only when it
\* supplies none.
C27_SuppliedTemperatureIsSent ==
    prompt.dispatched =>
        prompt.call.temperature =
            IF request.options.temperature.t = "undefined"
            THEN Num(DefaultTemperature)
            ELSE request.options.temperature

====
